---- MODULE Spec2Model ----
(***************************************************************************)
(* Frame-of-reference fast field codec                                     *)
(* (fastfield_codecs/src/frame_of_reference.rs).                           *)
(*                                                                         *)
(* Bytes are numbers 0..255, buffers are sequences of bytes, a u64 that    *)
(* the codec handles is a natural number (the inputs are small enough      *)
(* that no u64 operation of a well-formed run wraps; a subtraction that    *)
(* would go below zero yields the negative number).                        *)
(***************************************************************************)
EXTENDS Integers, Sequences, FiniteSets, TLC

\* const BLOCK_SIZE: u64 = 128;
BLOCK_SIZE == 128

(***************************************************************************)
(* Bounds of the model.                                                    *)
(***************************************************************************)
\* data lengths are 1..SmallLen and 128*k, 128*k+1 for k in 1..MaxBlocks
MaxBlocks == 2
SmallLen == 2
\* values of a block spread over at most MaxMod distinct offsets
MaxMod == 4
\* the output sink takes 0..MaxCap bytes, or everything
MaxCap == 52
\* number of concurrent callers of the reader
NumReaders == 2

Min2(a, b) == IF a <= b THEN a ELSE b
Max2(a, b) == IF a >= b THEN a ELSE b

RECURSIVE Pow2(_)
Pow2(n) == IF n = 0 THEN 1 ELSE 2 * Pow2(n - 1)

(***************************************************************************)
(* External primitives (tantivy_bitpacker, common::BinarySerializable).    *)
(***************************************************************************)
\* minimal bit width able to represent n
RECURSIVE compute_num_bits(_)
compute_num_bits(n) == IF n <= 0 THEN 0 ELSE 1 + compute_num_bits(n \div 2)

\* the num_bits low bits of val, least significant first
BitsOf(val, num_bits) == [k \in 1..num_bits |-> (val \div Pow2(k - 1)) % 2]

ByteOfBits(b) ==
    LET bit(k) == IF k <= Len(b) THEN b[k] ELSE 0
    IN  bit(1) + 2 * bit(2) + 4 * bit(3) + 8 * bit(4)
        + 16 * bit(5) + 32 * bit(6) + 64 * bit(7) + 128 * bit(8)

\* fixed-width little-endian integers
RECURSIVE LEBytes(_, _)
LEBytes(v, n) == IF n = 0 THEN <<>> ELSE <<v % 256>> \o LEBytes(v \div 256, n - 1)

U64Bytes(v) == LEBytes(v, 8)
\* `as u32` / u8: LEBytes keeps the low bytes only
U32Bytes(v) == LEBytes(v, 4)
U8Bytes(v) == LEBytes(v, 1)

(***************************************************************************)
(* The output sink (impl Write).  A limited sink takes cap bytes; the       *)
(* write_all that crosses cap writes what fits and reports an I/O error.   *)
(* A caller that went on after the error would find the sink writable      *)
(* again.                                                                  *)
(***************************************************************************)
Unlimited == [limited |-> FALSE, cap |-> 0]
Limited(n) == [limited |-> TRUE, cap |-> n]

NewWriter(limit) ==
    [buf |-> <<>>, limited |-> limit.limited, cap |-> limit.cap, err |-> FALSE]

SinkWriteAll(w, bytes) ==
    IF w.err \/ ~w.limited
    THEN [w EXCEPT !.buf = @ \o bytes]
    ELSE LET room == Min2(Len(bytes), w.cap - Len(w.buf))
         IN  [w EXCEPT !.buf = @ \o SubSeq(bytes, 1, room),
                       !.err = room < Len(bytes)]

\* the `?` after a write: an error returns from the function at once
FailedIgnored(w) == FALSE
Failed(w) == w.err

write_all(w, bytes) == IF Failed(w) THEN w ELSE SinkWriteAll(w, bytes)

(***************************************************************************)
(* BitPacker: a bit cursor (partial byte + fill count) over the sink.      *)
(* A packer state is [w |-> writer, pending |-> bits not yet written].     *)
(***************************************************************************)
NewBitPacker(w) == [w |-> w, pending |-> <<>>]

RECURSIVE Drain(_)
Drain(st) ==
    IF Len(st.pending) < 8 \/ Failed(st.w)
    THEN st
    ELSE Drain([w |-> write_all(st.w, <<ByteOfBits(SubSeq(st.pending, 1, 8))>>),
                pending |-> SubSeq(st.pending, 9, Len(st.pending))])

BitPackerWrite(st, val, num_bits) ==
    IF Failed(st.w) THEN st
    ELSE Drain([st EXCEPT !.pending = @ \o BitsOf(val, num_bits)])

BitPackerFlush(st) ==
    IF Failed(st.w) \/ Len(st.pending) = 0 THEN st
    ELSE [w |-> write_all(st.w, <<ByteOfBits(st.pending)>>), pending |-> <<>>]

BitPackerClose(st) == BitPackerFlush(st)

(***************************************************************************)
(* BlockMetadata and FORFooter serialization.                              *)
(***************************************************************************)
BlockMetadataBytes(m) == U64Bytes(m.min) \o U8Bytes(m.num_bits)

RECURSIVE BlockMetadatasBytes(_, _)
BlockMetadatasBytes(metas, k) ==
    IF k > Len(metas) THEN <<>>
    ELSE BlockMetadataBytes(metas[k]) \o BlockMetadatasBytes(metas, k + 1)

\* Vec<BlockMetadata>: the element count, then the elements in order
VecBytes(metas) == U32Bytes(Len(metas)) \o BlockMetadatasBytes(metas, 1)

\* the temporary buffer `out` of FORFooter::serialize
FooterBytes(footer) ==
    U64Bytes(footer.num_vals) \o U64Bytes(footer.min_value)
        \o U64Bytes(footer.max_value) \o VecBytes(footer.block_metadatas)

FORFooterSerializeCountingTrailer(w, footer) ==
    LET out == FooterBytes(footer)
        w1 == write_all(w, out)
    IN  write_all(w1, U32Bytes(Len(out) + 4))

FORFooterSerialize(w, footer) ==
    LET out == FooterBytes(footer)
        w1 == write_all(w, out)
    IN  write_all(w1, U32Bytes(Len(out)))

(***************************************************************************)
(* FORFastFieldSerializer::serialize                                       *)
(***************************************************************************)
\* min / max over vals[lo..hi], scanned in order (split in halves to keep the
\* evaluation shallow)
RECURSIVE ScanMin(_, _, _)
ScanMin(vals, lo, hi) ==
    IF lo = hi THEN vals[lo]
    ELSE LET mid == (lo + hi) \div 2
         IN  Min2(ScanMin(vals, lo, mid), ScanMin(vals, mid + 1, hi))

RECURSIVE ScanMax(_, _, _)
ScanMax(vals, lo, hi) ==
    IF lo = hi THEN vals[lo]
    ELSE LET mid == (lo + hi) \div 2
         IN  Max2(ScanMax(vals, lo, mid), ScanMax(vals, mid + 1, hi))

BlockMinFirst(block_values) == block_values[1]
BlockMin(block_values) == ScanMin(block_values, 1, Len(block_values))
BlockMax(block_values) == ScanMax(block_values, 1, Len(block_values))

\* for current_value in block_values.iter() { bit_packer.write(..)? }
\* over block_values[lo..hi], in order
RECURSIVE PackValues(_, _, _, _, _, _)
PackValues(st, block_values, min, num_bits, lo, hi) ==
    IF lo > hi \/ Failed(st.w) THEN st
    ELSE IF lo = hi THEN BitPackerWrite(st, block_values[lo] - min, num_bits)
    ELSE LET mid == (lo + hi) \div 2
         IN  PackValues(PackValues(st, block_values, min, num_bits, lo, mid),
                        block_values, min, num_bits, mid + 1, hi)

\* the block loop; acc is [st, metas, starts], where starts records the bit
\* position of the cursor when each block began
RECURSIVE SerializeBlocks(_, _, _)
SerializeBlocks(acc, data, data_pos) ==
    IF data_pos >= Len(data) \/ Failed(acc.st.w) THEN acc
    ELSE LET block_num_vals == Min2(BLOCK_SIZE, Len(data) - data_pos)
             block_values == SubSeq(data, data_pos + 1, data_pos + block_num_vals)
             min == BlockMin(block_values)
             max == BlockMax(block_values)
             num_bits == compute_num_bits(max - min)
             start == 8 * Len(acc.st.w.buf) + Len(acc.st.pending)
             packed == PackValues(acc.st, block_values, min, num_bits, 1, block_num_vals)
             flushed == BitPackerFlush(packed)
         IN  IF Failed(flushed.w)
             THEN [acc EXCEPT !.st = flushed]
             ELSE SerializeBlocks(
                      [st |-> flushed,
                       metas |-> Append(acc.metas, [min |-> min, num_bits |-> num_bits]),
                       starts |-> Append(acc.starts, start)],
                      data, data_pos + BLOCK_SIZE)

\* returns [w, result, metas, starts, data_len], data_len being the length of
\* the output when the footer is about to be written
FORSerialize(w, stats, data) ==
    LET blocks == SerializeBlocks([st |-> NewBitPacker(w), metas |-> <<>>,
                                   starts |-> <<>>], data, 0)
        closed == BitPackerClose(blocks.st)
        footer == [num_vals |-> stats.num_vals, min_value |-> stats.min_value,
                   max_value |-> stats.max_value, block_metadatas |-> blocks.metas]
        wf == IF Failed(closed.w) THEN closed.w
              ELSE FORFooterSerialize(closed.w, footer)
    IN  [w |-> wf, result |-> IF wf.err THEN "Err" ELSE "Ok",
         metas |-> blocks.metas, starts |-> blocks.starts,
         data_len |-> Len(closed.w.buf)]


(***************************************************************************)
(* Deserialization.  A u32 read from a buffer is kept as [hi, lo] with     *)
(* value hi * 2^24 + lo; a u64 of 2^31 - 1 or more is outside the numbers  *)
(* the model handles and reads as Unrepresented (2^31 - 1).                *)
(***************************************************************************)
TwoTo24 == Pow2(24)
Unrepresented == Pow2(30) + (Pow2(30) - 1)

U32At(bytes, pos) ==
    [hi |-> bytes[pos + 4],
     lo |-> bytes[pos + 1] + 256 * bytes[pos + 2] + 65536 * bytes[pos + 3]]

U64At(bytes, pos) ==
    IF bytes[pos + 4] >= 128 \/ \E k \in 5..8 : bytes[pos + k] # 0
    THEN Unrepresented
    ELSE bytes[pos + 1] + 256 * bytes[pos + 2] + 65536 * bytes[pos + 3]
             + TwoTo24 * bytes[pos + 4]

BlockMetadataAt(bytes, pos) ==
    [min |-> U64At(bytes, pos), num_bits |-> bytes[pos + 9]]

\* FORFooter::deserialize over the reader `region`; reads in field order and
\* fails with an io::Error when the reader runs out of bytes
FORFooterDeserialize(region) ==
    IF Len(region) < 28 THEN [result |-> "Err"]
    ELSE LET count == U32At(region, 24)
         IN  IF count.hi > 0 \/ count.lo > (Len(region) - 28) \div 9
             THEN [result |-> "Err"]
             ELSE [result |-> "Ok",
                   num_vals |-> U64At(region, 0),
                   min_value |-> U64At(region, 8),
                   max_value |-> U64At(region, 16),
                   block_metadatas |->
                       [k \in 1..count.lo |-> BlockMetadataAt(region, 28 + 9 * (k - 1))]]

(***************************************************************************)
(* FORFastFieldReader                                                      *)
(***************************************************************************)
\* current_data_offset += num_bits as u64 * BLOCK_SIZE / 8
BlockBits(num_bits) == num_bits * BLOCK_SIZE
BlockBytes(num_bits) == (num_bits * BLOCK_SIZE) \div 8

RECURSIVE BuildBlockReaders(_, _, _, _)
BuildBlockReaders(metas, k, current_data_offset, block_readers) ==
    IF k > Len(metas) THEN block_readers
    ELSE BuildBlockReaders(metas, k + 1,
             current_data_offset + BlockBytes(metas[k].num_bits),
             Append(block_readers,
                    [metadata |-> metas[k], start_offset |-> current_data_offset]))

NoReader == [num_vals |-> 0, min_value |-> 0, max_value |-> 0, block_readers |-> <<>>]

\* open_from_bytes; overflow_checks is the build's integer overflow mode.
\* Returns [result |-> "Ok" | "Err" | "panic", reader]
OpenFromBytes(bytes, overflow_checks) ==
    IF Len(bytes) < 4
    THEN \* bytes.len() - 4 is below zero: overflow panic, or a wrapped slice
         \* start beyond the buffer, which panics too
         [result |-> "panic", reader |-> NoReader]
    ELSE
    LET footer_len == U32At(bytes, Len(bytes) - 4)
        sum_wraps == footer_len.hi = 255 /\ footer_len.lo >= TwoTo24 - 4
        total == IF sum_wraps THEN footer_len.lo + 4 - TwoTo24
                 ELSE footer_len.lo + 4
    IN  IF sum_wraps /\ overflow_checks
        THEN [result |-> "panic", reader |-> NoReader]
        ELSE IF ~sum_wraps /\ (footer_len.hi > 0 \/ total > Len(bytes))
        THEN \* bytes.len() - (4 + footer_len) is below zero
             [result |-> "panic", reader |-> NoReader]
        ELSE LET region == SubSeq(bytes, Len(bytes) - total + 1, Len(bytes))
                 footer == FORFooterDeserialize(region)
             IN  IF footer.result = "Err"
                 THEN [result |-> "Err", reader |-> NoReader]
                 ELSE [result |-> "Ok",
                       reader |-> [num_vals |-> footer.num_vals,
                                   min_value |-> footer.min_value,
                                   max_value |-> footer.max_value,
                                   block_readers |->
                                       BuildBlockReaders(footer.block_metadatas, 1, 0, <<>>)]]

\* bit number b (from 0) of the byte buffer
BufBit(data, b) == (data[(b \div 8) + 1] \div Pow2(b % 8)) % 2

RECURSIVE BitsValue(_, _, _, _)
BitsValue(data, first, num_bits, k) ==
    IF k = num_bits THEN 0
    ELSE BufBit(data, first + k) * Pow2(k) + BitsValue(data, first, num_bits, k + 1)

\* BitUnpacker::get(idx, &data[start_offset..]): the num_bits wide integer
\* at bit offset idx * num_bits of the region; a read past the end of the
\* buffer panics
BitUnpackerGet(num_bits, idx, data, start_offset) ==
    IF num_bits = 0 THEN [kind |-> "value", val |-> 0]
    ELSE LET first == 8 * start_offset + idx * num_bits
         IN  IF first + num_bits > 8 * Len(data)
             THEN [kind |-> "panic", val |-> 0]
             ELSE [kind |-> "value", val |-> BitsValue(data, first, num_bits, 0)]

BlockReaderGetU64(block_reader, block_pos, data) ==
    IF block_reader.start_offset > Len(data)
    THEN [kind |-> "panic", val |-> 0]
    ELSE LET diff == BitUnpackerGet(block_reader.metadata.num_bits, block_pos,
                                    data, block_reader.start_offset)
         IN  IF diff.kind = "panic" THEN diff
             ELSE [kind |-> "value", val |-> block_reader.metadata.min + diff.val]

BlockPosWhole(idx, block_idx) == idx
BlockPosInBlock(idx, block_idx) == idx - block_idx * BLOCK_SIZE

\* FORFastFieldReader::get_u64
FORGetU64(reader, idx, data) ==
    LET block_idx == idx \div BLOCK_SIZE
        block_pos == BlockPosInBlock(idx, block_idx)
    IN  IF block_idx >= Len(reader.block_readers)
        THEN [kind |-> "panic", val |-> 0]
        ELSE BlockReaderGetU64(reader.block_readers[block_idx + 1], block_pos, data)


(***************************************************************************)
(* is_applicable and estimate_compression_ratio                            *)
(***************************************************************************)
IsApplicableInclusive(stats) == stats.num_vals >= BLOCK_SIZE
IsApplicable(stats) == stats.num_vals > BLOCK_SIZE

\* `as f32`: round to the nearest number with a 24 bit significand, ties to
\* even (n below 2^31)
F32(n) ==
    IF n < TwoTo24 THEN n
    ELSE LET q == Pow2(compute_num_bits(n) - 24)
             r == n % q
             down == n - r
         IN  IF 2 * r > q \/ (2 * r = q /\ (down \div q) % 2 = 1)
             THEN down + q ELSE down

\* positions of the accessor that get_val is called on
EstimatePositions(stats) == 0..(Min2(BLOCK_SIZE, stats.num_vals) - 1)

\* max over positions lo..hi of get_val(pos) - stats.min_value
RECURSIVE MaxDistance(_, _, _, _)
MaxDistance(accessor, stats, lo, hi) ==
    IF lo = hi THEN accessor[lo + 1] - stats.min_value
    ELSE LET mid == (lo + hi) \div 2
         IN  Max2(MaxDistance(accessor, stats, lo, mid),
                  MaxDistance(accessor, stats, mid + 1, hi))

\* returns [kind, bits_per_value, num_bits, num_bits_uncompressed, read];
\* the ratio is num_bits as f32 / num_bits_uncompressed as f32
EstimateCompressionRatio(accessor, stats) ==
    IF stats.num_vals = 0
    THEN \* .max() of an empty iterator is None and unwrap() panics
         [kind |-> "panic", bits_per_value |-> 0, num_bits |-> 0,
          num_bits_uncompressed |-> 0, read |-> {}]
    ELSE LET last_elem_in_first_chunk == Min2(BLOCK_SIZE, stats.num_vals)
             max_distance == MaxDistance(accessor, stats, 0,
                                         last_elem_in_first_chunk - 1)
             relative_max_value == F32(F32(max_distance) * 3)
             bits == compute_num_bits(relative_max_value)
         IN  [kind |-> "value",
              bits_per_value |-> bits,
              num_bits |-> bits * stats.num_vals
                               + 9 * (stats.num_vals \div BLOCK_SIZE),
              num_bits_uncompressed |-> 64 * stats.num_vals,
              read |-> EstimatePositions(stats)]

(***************************************************************************)
(* The inputs: columns of the lengths around the block boundaries, whose   *)
(* values cycle over a few offsets above a per-block base, forward and     *)
(* reversed; the ramp 0, 1, 2, ... of the border case tests; a column of   *)
(* zeros with one large value, Spike, which a 24 bit significand cannot    *)
(* hold.                                                                   *)
(***************************************************************************)
Base == 30
Spike == 89478485

Lens == (1..SmallLen) \cup {BLOCK_SIZE * k : k \in 1..MaxBlocks}
            \cup {BLOCK_SIZE * k + 1 : k \in 1..MaxBlocks}

Patterns == [kind : {"cycle"}, base : {Base}, mod : 1..MaxMod, flat : BOOLEAN]
              \cup [kind : {"ramp", "spike"}, base : {0}, mod : {1}, flat : {FALSE}]

ValueAt(p, i) ==
    IF p.kind = "ramp" THEN i
    ELSE IF p.kind = "spike" THEN (IF i = 0 THEN Spike ELSE 0)
    ELSE p.base * (1 + i \div BLOCK_SIZE)
           + (IF p.flat /\ i < BLOCK_SIZE THEN 0 ELSE i % p.mod)

Column(p, n, rev) ==
    [k \in 1..n |-> IF rev THEN ValueAt(p, n - k) ELSE ValueAt(p, k - 1)]

StatsOf(col) ==
    [num_vals |-> Len(col), min_value |-> ScanMin(col, 1, Len(col)),
     max_value |-> ScanMax(col, 1, Len(col))]

Readers == 1..NumReaders
Caps == {Limited(n) : n \in 0..MaxCap} \cup {Unlimited}

VARIABLES
    data,             \* the column (also the FastFieldDataAccess)
    stats,            \* FastFieldStats of the column
    applicable,       \* <<result of is_applicable>>, <<>> before the call
    estimate,         \* <<result of estimate_compression_ratio>>, or <<>>
    ser_result,       \* "none", or what serialize returned: "Ok" / "Err"
    out,              \* the bytes in the output sink
    metas,            \* the BlockMetadata entries serialize recorded
    starts,           \* bit position of the cursor at the start of each block
    data_len,         \* bytes in the sink when the footer was about to be written
    open_result,      \* "none", or the outcome of open_from_bytes
    reader,           \* the FORFastFieldReader
    pc,               \* per caller: "idle" or "get_u64"
    arg,              \* per caller: the index of its current / last get_u64
    ret               \* per caller: what its last call returned

vars == <<data, stats, applicable, estimate, ser_result, out,
          metas, starts, data_len, open_result, reader, pc, arg, ret>>

codec_vars == <<data, stats, applicable, estimate, ser_result,
                out, metas, starts, data_len, open_result, reader>>

NoRet == [kind |-> "none", val |-> 0]

Init ==
    /\ \E p \in Patterns, n \in Lens, rev \in BOOLEAN : data = Column(p, n, rev)
    /\ stats = StatsOf(data)
    /\ applicable = <<>>
    /\ estimate = <<>>
    /\ ser_result = "none"
    /\ out = <<>>
    /\ metas = <<>>
    /\ starts = <<>>
    /\ data_len = 0
    /\ open_result = "none"
    /\ reader = NoReader
    /\ pc = [t \in Readers |-> "idle"]
    /\ arg = [t \in Readers |-> 0]
    /\ ret = [t \in Readers |-> NoRet]

\* the codec selection asks is_applicable and the estimate before encoding
CallIsApplicable ==
    /\ ser_result = "none"
    /\ applicable = <<>>
    /\ applicable' = <<IsApplicable(stats)>>
    /\ UNCHANGED <<data, stats, estimate, ser_result, out, metas,
                   starts, data_len, open_result, reader, pc, arg, ret>>

CallEstimate ==
    /\ ser_result = "none"
    /\ estimate = <<>>
    /\ estimate' = <<EstimateCompressionRatio(data, stats)>>
    /\ UNCHANGED <<data, stats, applicable, ser_result, out, metas,
                   starts, data_len, open_result, reader, pc, arg, ret>>

Serialize(cap) ==
    /\ ser_result = "none"
    /\ applicable # <<>>
    /\ estimate # <<>>
    /\ LET r == FORSerialize(NewWriter(cap), stats, data)
       IN  /\ ser_result' = r.result
           /\ out' = r.w.buf
           /\ metas' = r.metas
           /\ starts' = r.starts
           /\ data_len' = r.data_len
    /\ UNCHANGED <<data, stats, applicable, estimate,
                   open_result, reader, pc, arg, ret>>

\* open_from_bytes on what the sink holds, complete or not, by a build with
\* or without integer overflow checks
Open(overflow_checks) ==
    /\ ser_result # "none"
    /\ open_result = "none"
    /\ LET r == OpenFromBytes(out, overflow_checks)
       IN  /\ open_result' = r.result
           /\ reader' = r.reader
    /\ UNCHANGED <<data, stats, applicable, estimate, ser_result,
                   out, metas, starts, data_len, pc, arg, ret>>

\* callers query a reader that was opened from a completely written buffer
CanQuery == ser_result = "Ok" /\ open_result = "Ok"

\* the first and the last index of the column, and the first one beyond it
Indexes == {0, Len(data) - 1, Len(data)}

\* what get_u64 leaves of the reader and the buffer it borrows (&self, &[u8])
SharedAfterGetRebased(r, bytes) ==
    <<[r EXCEPT !.block_readers =
          [k \in DOMAIN r.block_readers |->
              [r.block_readers[k] EXCEPT !.start_offset = @ + 1]]], bytes>>
SharedAfterGet(r, bytes) == <<r, bytes>>

GetU64Call(t, idx) ==
    /\ CanQuery
    /\ pc[t] = "idle"
    /\ pc' = [pc EXCEPT ![t] = "get_u64"]
    /\ arg' = [arg EXCEPT ![t] = idx]
    /\ ret' = [ret EXCEPT ![t] = NoRet]
    /\ UNCHANGED codec_vars

GetU64Return(t) ==
    /\ pc[t] = "get_u64"
    /\ ret' = [ret EXCEPT ![t] = FORGetU64(reader, arg[t], out)]
    /\ pc' = [pc EXCEPT ![t] = "idle"]
    /\ reader' = SharedAfterGet(reader, out)[1]
    /\ out' = SharedAfterGet(reader, out)[2]
    /\ UNCHANGED <<data, stats, applicable, estimate, ser_result,
                   metas, starts, data_len, open_result, arg>>

MinValue(t) ==
    /\ CanQuery
    /\ pc[t] = "idle"
    /\ ret' = [ret EXCEPT ![t] = [kind |-> "min_value", val |-> reader.min_value]]
    /\ arg' = [arg EXCEPT ![t] = 0]
    /\ UNCHANGED <<codec_vars, pc>>

MaxValue(t) ==
    /\ CanQuery
    /\ pc[t] = "idle"
    /\ ret' = [ret EXCEPT ![t] = [kind |-> "max_value", val |-> reader.max_value]]
    /\ arg' = [arg EXCEPT ![t] = 0]
    /\ UNCHANGED <<codec_vars, pc>>

Next ==
    \/ CallIsApplicable
    \/ CallEstimate
    \/ \E cap \in Caps : Serialize(cap)
    \/ \E overflow_checks \in BOOLEAN : Open(overflow_checks)
    \/ \E t \in Readers, idx \in Indexes : GetU64Call(t, idx)
    \/ \E t \in Readers : GetU64Return(t)
    \/ \E t \in Readers : MinValue(t)
    \/ \E t \in Readers : MaxValue(t)

Spec == Init /\ [][Next]_vars


(***************************************************************************)
(* Properties                                                              *)
(***************************************************************************)
CeilDiv(a, b) == (a + b - 1) \div b

NumBlocks == CeilDiv(Len(data), 128)

\* the values of block k (from 1) of the column
BlockValuesOf(k) == SubSeq(data, 128 * (k - 1) + 1, Min2(128 * k, Len(data)))

\* number of values of block k
BlockLen(k) == Min2(128, Len(data) - 128 * (k - 1))

SetMax(S) == CHOOSE x \in S : \A y \in S : y <= x

\* bit position at which block k of the data region ends
BlockEnd(k) == IF k < Len(starts) THEN starts[k + 1] ELSE 8 * data_len

\* caller t has returned from a get_u64
Returned(t) == pc[t] = "idle" /\ ret[t].kind \in {"value", "panic"}

\* C1: when serialize returned Ok, open_from_bytes on the bytes it produced
\* returns a reader for which get_u64(i, bytes) is the i-th value of the
\* column for every i below num_vals, and that is what every caller's
\* get_u64 returns (the columns include lengths 128*k and 128*k+1, forward
\* and reversed).
RoundTrip ==
    [][/\ (ser_result = "Ok" /\ open_result = "none" /\ open_result' # "none") =>
            /\ open_result' = "Ok"
            /\ \A i \in 0..(Len(data) - 1) :
                  FORGetU64(reader', i, out') = [kind |-> "value", val |-> data[i + 1]]
       /\ \A t \in Readers :
            (pc[t] = "get_u64" /\ pc'[t] = "idle" /\ arg[t] < Len(data)) =>
                ret'[t] = [kind |-> "value", val |-> data[arg[t] + 1]]]_vars

\* a caller read the single value of the short final block of a column of
\* 128*k+1 values whose first block needs packed bits
RoundTripWitness ==
    /\ CanQuery
    /\ Len(data) > 128
    /\ Len(data) % 128 = 1
    /\ metas[1].num_bits > 0
    /\ \E t \in Readers :
          /\ Returned(t)
          /\ arg[t] = Len(data) - 1
          /\ ret[t] = [kind |-> "value", val |-> data[Len(data)]]

\* the last four bytes of the sink read as a u32
TrailerOf(bytes) == U32At(bytes, Len(bytes) - 4)

ShortBuffer == Len(out) < 4

FooterLenExceeds ==
    /\ Len(out) >= 4
    /\ TrailerOf(out).hi > 0 \/ TrailerOf(out).lo > Len(out) - 4

FooterMalformed ==
    /\ Len(out) >= 4
    /\ ~FooterLenExceeds
    /\ FORFooterDeserialize(
           SubSeq(out, Len(out) - 4 - TrailerOf(out).lo + 1, Len(out))).result = "Err"

\* C2: open_from_bytes returns an error (it does not panic) on a buffer
\* shorter than 4 bytes, on a buffer whose trailing length exceeds the rest
\* of the buffer, and on a buffer whose footer does not deserialize.
OpenReportsFormatError ==
    (open_result # "none" /\ (ShortBuffer \/ FooterLenExceeds \/ FooterMalformed))
        => open_result = "Err"

\* C3: a get_u64 with an index at or beyond num_vals never returns a value:
\* it panics, also when the index falls into an existing (short) block.
OutOfRangeGetPanics ==
    \A t \in Readers :
        (CanQuery /\ Returned(t) /\ arg[t] >= reader.num_vals)
            => ret[t].kind = "panic"

\* C4: in every complete output the last 4 bytes are the byte length L of
\* the footer written before them, and bytes[len-4-L .. len-4] deserialize to
\* the stats given to serialize and the block metadata recorded, in order.
FooterSelfDescription ==
    ser_result = "Ok" =>
        /\ Len(out) >= 4
        /\ TrailerOf(out).hi = 0
        /\ TrailerOf(out).lo = Len(out) - 4 - data_len
        /\ LET L == TrailerOf(out).lo
               footer == FORFooterDeserialize(SubSeq(out, Len(out) - 4 - L + 1,
                                                     Len(out) - 4))
           IN  /\ footer.result = "Ok"
               /\ footer.num_vals = stats.num_vals
               /\ footer.min_value = stats.min_value
               /\ footer.max_value = stats.max_value
               /\ footer.block_metadatas = metas

\* a complete output of three blocks with differing metadata
FooterSelfDescriptionWitness ==
    /\ ser_result = "Ok"
    /\ Len(metas) >= 3
    /\ metas[1] # metas[2]
    /\ data_len > 0
    /\ stats.min_value < stats.max_value

\* C5: is_applicable is false for num_vals <= 128 and true for
\* num_vals > 128, whatever the values of the column.
ApplicabilityThreshold ==
    applicable # <<>> =>
        /\ stats.num_vals <= 128 => applicable[1] = FALSE
        /\ stats.num_vals > 128 => applicable[1] = TRUE

\* is_applicable was asked about a column of exactly 128 values
ApplicabilityWitness ==
    /\ applicable = <<FALSE>>
    /\ stats.num_vals = 128
    /\ stats.min_value < stats.max_value


\* callers that made the same call got the same answer
CallersAgree ==
    \A t, u \in Readers :
        /\ (Returned(t) /\ Returned(u) /\ arg[t] = arg[u]) => ret[t] = ret[u]
        /\ (ret[t].kind = ret[u].kind /\ ret[t].kind \in {"min_value", "max_value"})
               => ret[t] = ret[u]

\* C6: get_u64, min_value and max_value leave the reader and the byte buffer
\* unchanged, so however the calls of the concurrent callers interleave,
\* a call returns what the same call returns for any other caller.
ReadOnlyDecoding ==
    [][(CanQuery => (reader' = reader /\ out' = out)) /\ CallersAgree']_vars

\* one caller is inside get_u64 while another has returned from a get_u64 of
\* the same index, which lies in a second block that starts after packed bits
ReadOnlyDecodingWitness ==
    /\ CanQuery
    /\ \E t, u \in Readers :
          /\ t # u
          /\ Returned(t)
          /\ ret[t].kind = "value"
          /\ pc[u] = "get_u64"
          /\ arg[u] = arg[t]
          /\ arg[t] >= 128
          /\ reader.block_readers[2].start_offset > 0

\* C7 as stated: when serialize fails, nothing partial is left in the sink.
SerializeAtomic == ser_result = "Err" => out = <<>>

\* C7 as amended: serialize either writes the complete layout and returns Ok,
\* or returns the error of the failing write and leaves in the sink the
\* bytes written before the failure, a proper prefix of the complete layout.
SerializeWritesPrefix ==
    [][(ser_result = "none" /\ ser_result' # "none") =>
          LET full == FORSerialize(NewWriter(Unlimited), stats, data).w.buf
          IN  /\ ser_result' = "Ok" => out' = full
              /\ ser_result' = "Err" =>
                    /\ Len(out') < Len(full)
                    /\ out' = SubSeq(full, 1, Len(out'))]_vars

\* a write of the footer failed after the data blocks were written
SerializeWritesPrefixWitness ==
    /\ ser_result = "Err"
    /\ data_len > 0
    /\ Len(out) > data_len

\* C8: the start_offset the decoder computes for each block is the byte
\* offset at which the encoder began writing it; there are
\* ceil(num_vals / 128) blocks and every block but the last holds 128 values.
BlockAlignment ==
    CanQuery =>
        /\ Len(reader.block_readers) = Len(starts)
        /\ Len(reader.block_readers) = CeilDiv(reader.num_vals, 128)
        /\ \A k \in 1..Len(starts) :
              /\ 8 * reader.block_readers[k].start_offset = starts[k]
              /\ BlockEnd(k) - starts[k] = 8 * CeilDiv(BlockLen(k) * metas[k].num_bits, 8)
              /\ k < Len(starts) => BlockLen(k) = 128

\* three blocks, the second and the third each starting after packed bits
BlockAlignmentWitness ==
    /\ CanQuery
    /\ Len(starts) >= 3
    /\ 0 < starts[2]
    /\ starts[2] < starts[3]
    /\ reader.block_readers[3].start_offset > 0

\* C9: for every block serialize emits, min is the minimum of its values,
\* num_bits is the least width that holds (max - min), every value v has
\* 0 <= v - min < 2^num_bits, and a block of equal values has num_bits = 0,
\* takes no byte of the data region and decodes to that value everywhere.
BlockMetadataInvariant ==
    ser_result = "Ok" =>
        /\ Len(metas) = NumBlocks
        /\ \A k \in 1..Len(metas) :
              LET vs == BlockValuesOf(k)
                  S == {vs[j] : j \in DOMAIN vs}
                  m == metas[k]
              IN  /\ m.min \in S
                  /\ \A v \in S : 0 <= v - m.min /\ v - m.min < Pow2(m.num_bits)
                  /\ m.num_bits > 0 => \E v \in S : v - m.min >= Pow2(m.num_bits - 1)
                  /\ Cardinality(S) = 1 =>
                        /\ m.num_bits = 0
                        /\ BlockEnd(k) = starts[k]
                        /\ CanQuery =>
                              \A j \in DOMAIN vs :
                                  FORGetU64(reader, 128 * (k - 1) + j - 1, out)
                                      = [kind |-> "value", val |-> vs[j]]

\* a full block of equal values was written and read back, next to a block
\* that needs two bits or more, in a column that does not start at its minimum
BlockMetadataWitness ==
    /\ CanQuery
    /\ Len(metas) >= 2
    /\ metas[1].num_bits >= 2
    /\ metas[2].num_bits = 0
    /\ BlockLen(2) = 128
    /\ data[1] > metas[1].min
    /\ \E t \in Readers : Returned(t) /\ ret[t].kind = "value" /\ arg[t] >= 128

\* C10: estimate_compression_ratio reads positions 0 .. min(128, num_vals) - 1
\* only; its numerator is bits_per_value * num_vals plus 9 per block for
\* ceil(num_vals / 128) blocks, with bits_per_value the minimal width of
\* 3 * max(value - min_value) over the sample; its denominator is
\* 64 * num_vals.
EstimateFormula ==
    estimate # <<>> =>
        LET sample == {data[pos + 1] - stats.min_value :
                           pos \in 0..(Min2(128, stats.num_vals) - 1)}
            bits_per_value == compute_num_bits(3 * SetMax(sample))
        IN  /\ estimate[1].kind = "value"
            /\ estimate[1].read = 0..(Min2(128, stats.num_vals) - 1)
            /\ estimate[1].num_bits =
                   bits_per_value * stats.num_vals + 9 * CeilDiv(stats.num_vals, 128)
            /\ estimate[1].num_bits_uncompressed = 64 * stats.num_vals


====
